---------------------------- MODULE Spec2Model ----------------------------
(***************************************************************************)
(* Model of valuation.py, a Streamlit script with five valuation forms.    *)
(*                                                                         *)
(* The script is re-run from the top on every widget interaction.  The     *)
(* state that survives between runs is the selected model and the values   *)
(* of the widgets rendered for it; what a run shows (st.error, st.success, *)
(* ...) and the locals it computed are the outcome of that run.            *)
(*                                                                         *)
(* Numbers: the widgets deliver Python floats.  They are modelled as exact *)
(* rationals <<n, d>> in lowest terms with d > 0; a float division whose   *)
(* divisor is 0.0 raises ZeroDivisionError, which is modelled as the       *)
(* outcome "exception".  Rounding, underflow and overflow of binary        *)
(* floating point are not modelled.                                        *)
(*                                                                         *)
(* The company name (st.text_input) only feeds the subheader above the DCF *)
(* results; neither is part of the model.                                  *)
(***************************************************************************)
EXTENDS Integers, Sequences, FiniteSets, TLC

VARIABLES model, inp, status, locals, display

vars == <<model, inp, status, locals, display>>

(***************************************************************************)
(* Exact rational arithmetic (Python float operators + - * / ** and the    *)
(* comparisons, without rounding).                                         *)
(***************************************************************************)
Abs(x) == IF x < 0 THEN -x ELSE x

RECURSIVE GCD(_, _)
GCD(a, b) == IF b = 0 THEN a ELSE GCD(b, a % b)

\* n/d in lowest terms, d # 0
Rat(n, d) ==
    LET s == IF d < 0 THEN -1 ELSE 1
        g == GCD(Abs(n), Abs(d))
    IN  <<(s * n) \div g, (s * d) \div g>>

I(n) == <<n, 1>>

Num(a) == a[1]
Den(a) == a[2]

RAdd(a, b) ==
    LET g == GCD(Den(a), Den(b))
    IN  Rat(Num(a) * (Den(b) \div g) + Num(b) * (Den(a) \div g),
            (Den(a) \div g) * Den(b))

RNeg(a) == <<-Num(a), Den(a)>>

RSub(a, b) == RAdd(a, RNeg(b))

RMul(a, b) ==
    LET g1 == GCD(Abs(Num(a)), Den(b))
        g2 == GCD(Abs(Num(b)), Den(a))
    IN  IF Num(a) = 0 \/ Num(b) = 0 THEN I(0)
        ELSE <<(Num(a) \div g1) * (Num(b) \div g2),
               (Den(a) \div g2) * (Den(b) \div g1)>>

IsZero(a) == Num(a) = 0

\* a / b, evaluated only where b is not zero
RDiv(a, b) == RMul(a, Rat(Den(b), Num(b)))

RECURSIVE RPow(_, _)
RPow(a, k) == IF k = 0 THEN I(1) ELSE RMul(a, RPow(a, k - 1))

\* the sign of a - b decides the comparison
RLt(a, b) == Num(RSub(a, b)) < 0
RLe(a, b) == Num(RSub(a, b)) <= 0
RGt(a, b) == RLt(b, a)

RECURSIVE RSum(_)
RSum(s) == IF s = <<>> THEN I(0) ELSE RAdd(RSum(SubSeq(s, 1, Len(s) - 1)), s[Len(s)])

\* f"{x:.2f}": the amount in hundredths, rounded half to even, with its sign
Fmt2(a) ==
    LET n == Abs(Num(a))
        d == Den(a)
        q == n \div d
        r == (n % d) * 100
        c == q * 100 + (r \div d)
        rem == r % d
        up == 2 * rem > d \/ (2 * rem = d /\ c % 2 = 1)
    IN  [neg |-> Num(a) < 0, cents |-> IF up THEN c + 1 ELSE c]

(***************************************************************************)
(* The sidebar's models and the widgets of each form.                      *)
(***************************************************************************)
DCF == "Discounted Cash Flow (DCF)"
DDM == "Dividend Discount Model (DDM)"
RIM == "Residual Income Model (RIM)"
REL == "Relative Valuation (P/E Multiple)"
ASSET == "Asset-Based Valuation"

Models == {DCF, DDM, RIM, REL, ASSET}

\* the value= argument of every st.number_input
Defaults(m) ==
    CASE m = DCF ->
           [opc |-> I(0), opc1 |-> I(0), opc2 |-> I(0),
            ope |-> I(0), ope1 |-> I(0), ope2 |-> I(0),
            gr |-> I(0), gr1 |-> I(0), tr |-> I(0), dr |-> I(0),
            dv |-> I(0), cb |-> I(0), os |-> I(1)]
      [] m = DDM -> [D1 |-> I(0), g |-> I(0), r |-> I(0)]
      [] m = RIM ->
           [book_value |-> I(0), net_income |-> I(0),
            rf |-> Rat(13, 2), beta |-> I(1), market_return |-> I(12)]
      [] m = REL -> [industry_pe |-> I(0), eps |-> I(0)]
      [] m = ASSET ->
           [total_assets |-> I(0), total_liabilities |-> I(0),
            shares_outstanding |-> I(1)]


(***************************************************************************)
(* Values the user types into the widgets.  Every set holds the widget's   *)
(* default.  Rates are percentages; -100 makes 1 + rate/100 zero.          *)
(***************************************************************************)
MaxShares == 2
MaxBeta == 2

Ints(S) == {I(n) : n \in S}

Shares == Ints({-1} \cup 0..MaxShares)

Values(m) ==
    CASE m = DCF ->
           [opc |-> Ints({0, 12}), opc1 |-> Ints({0, 6}), opc2 |-> Ints({0, 3}),
            ope |-> Ints({0, 3}), ope1 |-> Ints({0, 6}), ope2 |-> Ints({0, 9}),
            gr |-> Ints({0, 100}), gr1 |-> Ints({0, 100}),
            tr |-> Ints({0, 50, -200}), dr |-> Ints({0, 100, -100}),
            dv |-> Ints({0, 5}), cb |-> Ints({0, 2}), os |-> Shares]
      [] m = DDM ->
           [D1 |-> Ints({0, 3, -3}), g |-> Ints({0, 4, 10}),
            r |-> Ints({0, 4, 10})]
      [] m = RIM ->
           [book_value |-> Ints({0, 50}), net_income |-> Ints({0, 8}),
            rf |-> {Rat(13, 2), I(0)}, beta |-> Ints(0..MaxBeta),
            market_return |-> Ints({12, 0})]
      [] m = REL -> [industry_pe |-> Ints({0, 1, 15}), eps |-> Ints({0, 4, -2})]
      [] m = ASSET ->
           [total_assets |-> Ints({0, 100}), total_liabilities |-> Ints({0, 40}),
            shares_outstanding |-> Shares \cup {I(10)}]

(***************************************************************************)
(* DCF: the locals of the Calculate handler, as functions of the widget    *)
(* values x.                                                               *)
(***************************************************************************)
Horizon == 10
Phase == 5

free_cash_flows(x) ==
    <<RSub(x.opc, x.ope), RSub(x.opc1, x.ope1), RSub(x.opc2, x.ope2)>>

cashflow(fcf) == RDiv(RSum(fcf), I(Len(fcf)))

\* gr / 100, gr1 / 100, tr / 100, dr / 100
grp(x) == RDiv(x.gr, I(100))
grp1(x) == RDiv(x.gr1, I(100))
trp(x) == RDiv(x.tr, I(100))
drp(x) == RDiv(x.dr, I(100))

\* FV[i] of the comprehension, i in range(10)
FVAt(cf, g, g1, i) ==
    IF i < Phase
    THEN RMul(cf, RPow(RAdd(I(1), g), i))
    ELSE RMul(RMul(cf, RPow(RAdd(I(1), g), Phase)), RPow(RAdd(I(1), g1), i - Phase))

\* the list FV; element k of the sequence is Python's FV[k-1]
FV(cf, g, g1) == [k \in 1..Horizon |-> FVAt(cf, g, g1, k - 1)]

\* mutant: the first projected year is not discounted
PVDivisor_ZeroBased(d, i) == RPow(RAdd(I(1), d), i)

\* the divisor of PV[i]
PVDivisor(d, i) == RPow(RAdd(I(1), d), i + 1)

\* PV[i] of the comprehension, i in range(10)
PVAt(fv, d, i) == RDiv(fv[i + 1], PVDivisor(d, i))

PV(fv, d) == [k \in 1..Horizon |-> PVAt(fv, d, k - 1)]

\* the divisors of terminalvalue and pvtv
TVDivisor(t, d) == RSub(d, t)
PVTVDivisor(d) == RPow(RAdd(I(1), d), 10)

\* FV[-1] is the last element of FV
terminalvalue(fv, t, d) == RDiv(RMul(fv[Len(fv)], RAdd(I(1), t)), TVDivisor(t, d))

pvtv(tv, d) == RDiv(tv, PVTVDivisor(d))

sumofpresentvalues(pv, ptv) == RAdd(RSum(pv), ptv)

netdebt(x) == RSub(x.dv, x.cb)

totalpresentvalue(spv, nd) == RSub(spv, nd)

shareprice(tpv, os) == RDiv(tpv, os)

uppershareprice(p) == RMul(p, Rat(11, 10))

lowershareprice(p) == RMul(p, Rat(9, 10))

\* mutant: the 30% discount taken as the factor
marginofsafetyprice_Discount(lp) == RMul(lp, Rat(3, 10))

marginofsafetyprice(lp) == RMul(lp, Rat(7, 10))

\* the divisors of lines 83-92 in evaluation order; a zero one raises
\* ZeroDivisionError and the run shows nothing
DcfDivisors(x) ==
    [k \in 1..Horizon |-> PVDivisor(drp(x), k - 1)]
      \o <<TVDivisor(trp(x), drp(x)), PVTVDivisor(drp(x)), x.os>>

DcfRaises(x) == \E k \in 1..Len(DcfDivisors(x)) : IsZero(DcfDivisors(x)[k])

SharesError == "Outstanding Shares must be greater than 0."
RateError == "Discount Rate must be greater than Terminal Growth Rate."

\* one st.error / st.success / st.info / st.warning call; an uncaught
\* exception is shown by Streamlit in place of the rest of the run
Shown(level, text) ==
    [level |-> level, text |-> text, amount |-> [neg |-> FALSE, cents |-> 0]]
Amount(level, text, a) == [level |-> level, text |-> text, amount |-> Fmt2(a)]

NoLocals == [n \in {} |-> I(0)]

\* lines 74-95, each local computed once from the ones before it
DcfLocals(x) ==
    LET cf == cashflow(free_cash_flows(x))
        fv == FV(cf, grp(x), grp1(x))
        pv == PV(fv, drp(x))
        tv == terminalvalue(fv, trp(x), drp(x))
        ptv == pvtv(tv, drp(x))
        spv == sumofpresentvalues(pv, ptv)
        tpv == totalpresentvalue(spv, netdebt(x))
        p == shareprice(tpv, x.os)
        up == uppershareprice(p)
        lp == lowershareprice(p)
    IN  [cashflow |-> cf, FV |-> fv, PV |-> pv, terminalvalue |-> tv,
         pvtv |-> ptv, sumofpresentvalues |-> spv, totalpresentvalue |-> tpv,
         shareprice |-> p, uppershareprice |-> up, lowershareprice |-> lp,
         marginofsafetyprice |-> marginofsafetyprice(lp)]

\* lines 98-101
DcfDisplay(l) ==
    <<Amount("success", "Intrinsic Value of Share Price", l.shareprice),
      Amount("info", "Upper Bound", l.uppershareprice),
      Amount("info", "Lower Bound", l.lowershareprice),
      Amount("warning", "Margin of Safety Price", l.marginofsafetyprice)>>

\* mutants: a guard that lets the boundary value through
DcfSharesGuard_Negative(x) == RLt(x.os, I(0))
DcfRateGuard_Strict(x) == RLt(x.dr, x.tr)

\* the guards of lines 67-72
DcfSharesGuard(x) == RLe(x.os, I(0))
DcfRateGuard(x) == RLe(x.dr, x.tr)

Init ==
    /\ model = DCF
    /\ inp = Defaults(DCF)
    /\ status = "idle"
    /\ locals = NoLocals
    /\ display = <<>>

\* a rerun with no button pressed shows no result
Cleared ==
    /\ status' = "idle"
    /\ locals' = NoLocals
    /\ display' = <<>>

SelectModel(m) ==
    /\ m # model
    /\ model' = m
    /\ inp' = Defaults(m)
    /\ Cleared

SetInput(f, v) ==
    /\ v # inp[f]
    /\ inp' = [inp EXCEPT ![f] = v]
    /\ UNCHANGED model
    /\ Cleared

CalculateDCF ==
    /\ model = DCF
    /\ IF DcfSharesGuard(inp)
       THEN /\ status' = "error"
            /\ display' = <<Shown("error", SharesError)>>
            /\ locals' = NoLocals
       ELSE IF DcfRateGuard(inp)
       THEN /\ status' = "error"
            /\ display' = <<Shown("error", RateError)>>
            /\ locals' = NoLocals
       ELSE IF DcfRaises(inp)
       THEN /\ status' = "exception"
            /\ display' = <<Shown("exception", "ZeroDivisionError")>>
            /\ locals' = NoLocals
       ELSE /\ status' = "success"
            /\ locals' = DcfLocals(inp)
            /\ display' = DcfDisplay(locals')
    /\ UNCHANGED <<model, inp>>

(***************************************************************************)
(* DDM                                                                     *)
(***************************************************************************)
ReturnError == "Return must be greater than growth rate"

DdmGuard(x) == RLe(x.r, x.g)

\* mutant: the rates left as percentages
DdmDivisor_NoPercent(x) == RSub(x.r, x.g)

\* the divisor (r - g) / 100
DdmDivisor(x) == RDiv(RSub(x.r, x.g), I(100))

DdmValue(x) == RDiv(x.D1, DdmDivisor(x))

CalculateDDM ==
    /\ model = DDM
    /\ IF DdmGuard(inp)
       THEN /\ status' = "error"
            /\ display' = <<Shown("error", ReturnError)>>
            /\ locals' = NoLocals
       ELSE IF IsZero(DdmDivisor(inp))
       THEN /\ status' = "exception"
            /\ display' = <<Shown("exception", "ZeroDivisionError")>>
            /\ locals' = NoLocals
       ELSE /\ status' = "success"
            /\ locals' = [intrinsic_value |-> DdmValue(inp)]
            /\ display' = <<Amount("success", "Intrinsic Value (DDM)",
                                   locals'.intrinsic_value)>>
    /\ UNCHANGED <<model, inp>>

(***************************************************************************)
(* RIM                                                                     *)
(***************************************************************************)
cost_of_equity(x) == RAdd(x.rf, RMul(x.beta, RSub(x.market_return, x.rf)))

\* mutant: the cost of equity left as a percentage
equity_charge_NoPercent(bv, coe) == RMul(bv, coe)

equity_charge(bv, coe) == RMul(bv, RDiv(coe, I(100)))

RI(ni, ec) == RSub(ni, ec)

\* the divisor cost_of_equity / 100
RimDivisor(coe) == RDiv(coe, I(100))

RimValue(bv, ri, coe) == RAdd(bv, RDiv(ri, RimDivisor(coe)))

RimLocals(x) ==
    LET coe == cost_of_equity(x)
        ec == equity_charge(x.book_value, coe)
        ri == RI(x.net_income, ec)
    IN  [cost_of_equity |-> coe, equity_charge |-> ec, RI |-> ri,
         intrinsic_value |-> RimValue(x.book_value, ri, coe)]

\* the handler has no guard: line 136 divides whatever cost_of_equity is
CalculateRIM ==
    /\ model = RIM
    /\ IF IsZero(RimDivisor(cost_of_equity(inp)))
       THEN /\ status' = "exception"
            /\ display' = <<Shown("exception", "ZeroDivisionError")>>
            /\ locals' = NoLocals
       ELSE /\ status' = "success"
            /\ locals' = RimLocals(inp)
            /\ display' = <<Amount("success", "Cost of Equity (CAPM)",
                                   locals'.cost_of_equity),
                            Amount("success", "Intrinsic Value (RIM)",
                                   locals'.intrinsic_value)>>
    /\ UNCHANGED <<model, inp>>

(***************************************************************************)
(* Relative valuation                                                      *)
(***************************************************************************)
relative_value(x) == RMul(x.industry_pe, x.eps)

CalculateRelative ==
    /\ model = REL
    /\ status' = "success"
    /\ locals' = [relative_value |-> relative_value(inp)]
    /\ display' = <<Amount("success", "Intrinsic Value (Relative Valuation)",
                           locals'.relative_value)>>
    /\ UNCHANGED <<model, inp>>

(***************************************************************************)
(* Asset-based valuation                                                   *)
(***************************************************************************)
nav(x) == RDiv(RSub(x.total_assets, x.total_liabilities), x.shares_outstanding)

\* the handler has no guard: line 163 divides by whatever the widget holds
CalculateAsset ==
    /\ model = ASSET
    /\ IF IsZero(inp.shares_outstanding)
       THEN /\ status' = "exception"
            /\ display' = <<Shown("exception", "ZeroDivisionError")>>
            /\ locals' = NoLocals
       ELSE /\ status' = "success"
            /\ locals' = [nav |-> nav(inp)]
            /\ display' = <<Amount("success", "Intrinsic Value (NAV)", locals'.nav)>>
    /\ UNCHANGED <<model, inp>>

Next ==
    \/ \E m \in Models : SelectModel(m)
    \/ \E f \in DOMAIN inp : \E v \in Values(model)[f] : SetInput(f, v)
    \/ CalculateDCF
    \/ CalculateDDM
    \/ CalculateRIM
    \/ CalculateRelative
    \/ CalculateAsset

Spec == Init /\ [][Next]_vars

(***************************************************************************)
(* Properties                                                              *)
(***************************************************************************)
\* the outcome of a Calculate press of form m is on the page
Pressed(m) == model = m /\ status # "idle"

\* the run computed no result and shows no amount
NoNumericResult ==
    /\ DOMAIN locals = {}
    /\ \A k \in 1..Len(display) : display[k].level \in {"error", "exception"}

\* the run ended in the validation failure with message msg
FailsWith(msg) == status = "error" /\ display = <<Shown("error", msg)>>

One == I(1)
Pct(v) == RDiv(v, I(100))

\* C1 (as stated): every DCF press with discount rate <= terminal growth rate
\* ends in the rate failure and produces no numeric result.
C1_AsStated ==
    (Pressed(DCF) /\ RLe(inp.dr, inp.tr)) =>
        (FailsWith(RateError) /\ NoNumericResult)

\* C1 (amended): every DCF press with discount rate <= terminal growth rate
\* produces no numeric result, and ends in the rate failure whenever the
\* outstanding shares are > 0.
C1_RateFailure ==
    (Pressed(DCF) /\ RLe(inp.dr, inp.tr)) =>
        /\ NoNumericResult
        /\ RGt(inp.os, I(0)) => FailsWith(RateError)

C1_Witness ==
    /\ Pressed(DCF) /\ inp.dr = inp.tr /\ RGt(inp.os, I(0))
    /\ FailsWith(RateError)

\* C2: every DCF press with outstanding shares <= 0 ends in the shares
\* failure with no numeric result, also when the rate relation is violated
\* too; the division by the shares is never reached.
C2_SharesFailure ==
    (Pressed(DCF) /\ RLe(inp.os, I(0))) =>
        (FailsWith(SharesError) /\ NoNumericResult)

C2_Witness ==
    /\ Pressed(DCF) /\ IsZero(inp.os) /\ RLe(inp.dr, inp.tr)
    /\ FailsWith(SharesError)

\* C3: an Asset-Based press with shares outstanding <= 0 ends in a shares
\* failure with no NAV computed or shown; with shares outstanding > 0 it
\* yields (total assets - total liabilities) / shares outstanding.
C3_AssetShares ==
    Pressed(ASSET) =>
        IF RLe(inp.shares_outstanding, I(0))
        THEN status = "error" /\ NoNumericResult
        ELSE /\ status = "success"
             /\ locals.nav = RDiv(RSub(inp.total_assets, inp.total_liabilities),
                                  inp.shares_outstanding)

\* C4: a RIM press whose cost of equity is 0 ends in a structured failure,
\* not in an exception: the division by costOfEquity/100 is not performed
\* with a zero divisor.
C4_RimZeroCost ==
    (Pressed(RIM)
       /\ IsZero(RAdd(inp.rf, RMul(inp.beta, RSub(inp.market_return, inp.rf))))) =>
        (status = "error" /\ NoNumericResult)

\* C5: in every successful DCF result upper = price * 1.10, lower =
\* price * 0.90, margin of safety = lower * 0.70 = price * 0.63, and with a
\* positive price upper > price > lower > margin of safety > 0.
C5_Bounds ==
    (Pressed(DCF) /\ status = "success") =>
        LET p == locals.shareprice
            u == locals.uppershareprice
            l == locals.lowershareprice
            m == locals.marginofsafetyprice
        IN  /\ u = RMul(p, Rat(110, 100))
            /\ l = RMul(p, Rat(90, 100))
            /\ m = RMul(l, Rat(70, 100))
            /\ m = RMul(p, Rat(63, 100))
            /\ RGt(p, I(0)) =>
                 (RGt(u, p) /\ RGt(p, l) /\ RGt(l, m) /\ RGt(m, I(0)))

C5_Witness ==
    /\ Pressed(DCF) /\ status = "success"
    /\ RGt(locals.shareprice, I(0))
    /\ RGt(locals.uppershareprice, locals.shareprice)
    /\ display[4].amount.cents > 0

\* C6: in a successful DCF run the base is the mean of the three (operating
\* cash - capital expenditure) values and projected year i, for i in 6..10,
\* is base * (1+nearTerm)^5 * (1+longTerm)^(i-5), year 1 being the first
\* projected year and year 10 the one used for the terminal value.
C6_Schedule ==
    (Pressed(DCF) /\ status = "success") =>
        LET base == RDiv(RAdd(RAdd(RSub(inp.opc, inp.ope), RSub(inp.opc1, inp.ope1)),
                              RSub(inp.opc2, inp.ope2)), I(3))
            near == RAdd(One, Pct(inp.gr))
            long == RAdd(One, Pct(inp.gr1))
        IN  /\ locals.cashflow = base
            /\ \A i \in 6..10 :
                 locals.FV[i] = RMul(RMul(base, RPow(near, 5)), RPow(long, i - 5))

\* C7: a DDM press fails with the rate failure and yields no value exactly
\* when requiredReturn <= growth; otherwise it yields
\* nextDividend / ((requiredReturn - growth)/100), which is > 0 when
\* nextDividend > 0.
C7_Ddm ==
    Pressed(DDM) =>
        IF RLe(inp.r, inp.g)
        THEN FailsWith(ReturnError) /\ NoNumericResult
        ELSE /\ status = "success"
             /\ locals.intrinsic_value = RDiv(RMul(inp.D1, I(100)), RSub(inp.r, inp.g))
             /\ RGt(inp.D1, I(0)) => RGt(locals.intrinsic_value, I(0))

C7_Witness ==
    /\ Pressed(DDM) /\ RGt(inp.r, inp.g) /\ RGt(inp.D1, I(0))
    /\ status = "success" /\ RGt(locals.intrinsic_value, I(0))

\* C8: a RIM press with nonzero cost of equity returns costOfEquity =
\* riskFree + beta*(marketReturn - riskFree) and intrinsicValue = bookValue +
\* (netIncome - bookValue*costOfEquity/100) / (costOfEquity/100); bookValue 50,
\* netIncome 8, rf 6.5, beta 1, marketReturn 12 give costOfEquity 12, equity
\* charge 6, residual income 2 and intrinsic value 50 + 2/0.12.
RimExample ==
    [book_value |-> I(50), net_income |-> I(8), rf |-> Rat(65, 10),
     beta |-> I(1), market_return |-> I(12)]

C8_Rim ==
    LET coe == RAdd(inp.rf, RMul(inp.beta, RSub(inp.market_return, inp.rf)))
    IN  (Pressed(RIM) /\ ~IsZero(coe)) =>
            /\ status = "success"
            /\ locals.cost_of_equity = coe
            /\ locals.intrinsic_value =
                 RAdd(inp.book_value,
                      RDiv(RSub(inp.net_income, RDiv(RMul(inp.book_value, coe), I(100))),
                           Pct(coe)))
            /\ inp = RimExample =>
                 /\ locals.cost_of_equity = I(12)
                 /\ locals.equity_charge = I(6)
                 /\ locals.RI = I(2)
                 /\ locals.intrinsic_value = RAdd(I(50), RDiv(I(2), Rat(12, 100)))

C8_Witness ==
    /\ Pressed(RIM) /\ inp = RimExample /\ status = "success"
    /\ locals.intrinsic_value = Rat(200, 3)

\* C9: every DCF press with outstanding shares > 0 and discount rate >
\* terminal growth rate completes with a numeric result: no divisor of the
\* computation is zero, for any rates including negative ones.
C9_NoZeroDivisor ==
    (Pressed(DCF) /\ RGt(inp.os, I(0)) /\ RGt(inp.dr, inp.tr)) =>
        (status = "success" /\ "shareprice" \in DOMAIN locals)

\* C10: in a successful DCF run with projected cash flows F_1..F_10 the price
\* is (sum of F_i/(1+dr)^i + (F_10*(1+tr)/(dr-tr))/(1+dr)^10 - (debt - cash))
\* / shares, and a negative net debt makes the price strictly higher than
\* zero net debt would.
C10_Price ==
    (Pressed(DCF) /\ status = "success") =>
        LET F == locals.FV
            d == Pct(inp.dr)
            t == Pct(inp.tr)
            flows == RSum([i \in 1..10 |-> RDiv(F[i], RPow(RAdd(One, d), i))])
            tv == RDiv(RMul(F[10], RAdd(One, t)), RSub(d, t))
            ev == RAdd(flows, RDiv(tv, RPow(RAdd(One, d), 10)))
            debtfree == RDiv(ev, inp.os)
        IN  /\ locals.shareprice = RDiv(RSub(ev, RSub(inp.dv, inp.cb)), inp.os)
            /\ RLt(inp.dv, inp.cb) => RGt(locals.shareprice, debtfree)

C10_Witness ==
    /\ Pressed(DCF) /\ status = "success"
    /\ RLt(inp.dv, inp.cb) /\ inp.dr = I(100) /\ inp.tr = I(50)
    /\ ~IsZero(locals.FV[10])

=============================================================================
